---- MODULE Spec2Model ----
(***************************************************************************)
(* ValoStat: valorant_tracker.py.                                          *)
(*                                                                         *)
(* Two threads.  The main thread imports the module (which loads the Riot  *)
(* API key), builds the window, creates the MatchTracker QThread, connects *)
(* its signal to update_match_status, starts it and enters the Qt event    *)
(* loop.  The tracker thread loops forever: request, classify, emit,       *)
(* sleep(5).  The signal crosses threads, so every emit posts one event    *)
(* per connection to the main thread's event queue, which the event loop   *)
(* serves in FIFO order.                                                   *)
(***************************************************************************)
EXTENDS Naturals, Sequences, FiniteSets

(* ---------------------------------------------------------------- bounds *)

\* Number of loop iterations of MatchTracker.run that are explored.
MaxTicks == 3

\* Last instant of the wall clock that is explored.
MaxTime == 10

(* ------------------------------------------------------------- constants *)

\* time.sleep(5)
SleepSecs == 5

\* response.status_code == 200
HTTP_OK == 200

\* Python's None where a string of characters is expected (the API key).
None == <<"None">>

\* No value: a name not bound yet, a call that did not return.
Unset == "<unset>"

MSG_ACTIVE == "Match Active - Data Retrieved!"
MSG_INACTIVE == "No Active Match Found."
MSG_ERROR == "Error fetching data."
MSG_WAITING == "Waiting for match data..."
LOG_NO_CONFIG == "Config file not found. Please update tracker_config.json."

Messages == {MSG_ACTIVE, MSG_INACTIVE, MSG_ERROR}

URL == "https://americas.api.riotgames.com/valorant/v1/matches"

(* ------------------------------------------------- strings as characters *)

\* "RGAPI-"
MARKER == <<"R", "G", "A", "P", "I", "-">>

Whitespace == {" ", "\t", "\n"}

RECURSIVE lstrip(_)
lstrip(s) ==
    IF s # <<>> /\ Head(s) \in Whitespace THEN lstrip(Tail(s)) ELSE s

RECURSIVE rstrip(_)
rstrip(s) ==
    IF s # <<>> /\ s[Len(s)] \in Whitespace
    THEN rstrip(SubSeq(s, 1, Len(s) - 1))
    ELSE s

\* str.strip()
strip(s) == rstrip(lstrip(s))

\* sub in s
contains(sub, s) ==
    \E i \in 1..(Len(s) + 1) :
        /\ i + Len(sub) - 1 <= Len(s)
        /\ SubSeq(s, i, i + Len(sub) - 1) = sub

(* ------------------------------------------------- the configuration file *)

KEY_GOOD == MARKER \o <<"a", "b">>
KEY_PADDED == <<" ">> \o MARKER \o <<"a", "b", "\n">>
KEY_INFIX == <<"x">> \o MARKER \o <<"a">>
KEY_NOMARK == <<"a", "b", "c">>
KEY_BLANK == <<" ", " ">>
KEY_EMPTY == <<>>

KeyStrings == {KEY_GOOD, KEY_PADDED, KEY_INFIX, KEY_NOMARK, KEY_BLANK, KEY_EMPTY}

\* What config/tracker_config.json can be when the module is imported:
\*   missing    the file does not exist
\*   malformed  the file is not JSON
\*   notobject  the file is JSON, but not an object (a list, a number)
\*   object     a JSON object; field "api_key" is absent, a string, or a
\*              value of another type (null, number)
Configs ==
    {[kind |-> k, field |-> "absent", value |-> <<>>] :
        k \in {"missing", "malformed", "notobject", "object"}}
    \cup {[kind |-> "object", field |-> "other", value |-> <<>>]}
    \cup {[kind |-> "object", field |-> "string", value |-> s] : s \in KeyStrings}

\* More values of the field "api_key": something before, the marker or a
\* piece of it or nothing, something after.
KeyBefore == {<<>>, <<" ">>, <<"x">>, <<"\t", "x">>}
KeyMiddle == {MARKER, <<"R", "G", "A", "P", "I">>, <<>>}
KeyAfter == {<<>>, <<"a">>, <<"\n">>, <<"a", " ">>, <<" ", "a">>}

LoadKeyStrings ==
    KeyStrings \cup
    {b \o m \o a : b \in KeyBefore, m \in KeyMiddle, a \in KeyAfter}

LoadConfigs ==
    Configs \cup
    {[kind |-> "object", field |-> "string", value |-> s] : s \in LoadKeyStrings}

\* load_api_key(): what it returns or that it raises, and what it logs.
load_api_key(cfg) ==
    IF cfg.kind = "missing"
    THEN [raised |-> FALSE, value |-> None, logs |-> <<LOG_NO_CONFIG>>]
    ELSE IF cfg.kind \in {"malformed", "notobject"}
    THEN [raised |-> TRUE, value |-> None, logs |-> <<>>]
    ELSE IF cfg.field = "other"
    THEN [raised |-> TRUE, value |-> None, logs |-> <<>>]
    ELSE LET api_key == strip(IF cfg.field = "absent" THEN <<>> ELSE cfg.value)
         IN  [raised |-> FALSE,
              value |-> IF api_key # <<>> /\ contains(MARKER, api_key)
                        THEN api_key ELSE None,
              logs |-> <<>>]

(* ------------------------------------------------------ the remote check *)

StatusCodes == {200, 404, 500}
ErrorDetails == {"ConnectionError", "Timeout"}

\* What requests.get can do: return a response, or raise.
Outcomes ==
    {[kind |-> "response", status_code |-> c, detail |-> ""] : c \in StatusCodes}
    \cup {[kind |-> "exception", status_code |-> 0, detail |-> d] : d \in ErrorDetails}

\* The headers requests sends: a header whose value is None is dropped.
sent_headers(headers) ==
    {h \in DOMAIN headers : headers[h] # None}

\* fetch_match_status without its except clause: the exception leaves run().
fetch_match_status_NoExcept(o) ==
    IF o.kind = "response"
    THEN IF o.status_code = HTTP_OK
         THEN [raised |-> FALSE, value |-> MSG_ACTIVE, logs |-> <<>>]
         ELSE [raised |-> FALSE, value |-> MSG_INACTIVE, logs |-> <<>>]
    ELSE [raised |-> TRUE, value |-> Unset, logs |-> <<>>]

\* fetch_match_status logging a fixed text instead of the exception.
fetch_match_status_NoDetail(o) ==
    IF o.kind = "response"
    THEN IF o.status_code = HTTP_OK
         THEN [raised |-> FALSE, value |-> MSG_ACTIVE, logs |-> <<>>]
         ELSE [raised |-> FALSE, value |-> MSG_INACTIVE, logs |-> <<>>]
    ELSE [raised |-> FALSE, value |-> MSG_ERROR, logs |-> <<"API Error">>]

\* fetch_match_status with the test inverted (status_code != 200).
fetch_match_status_Inverted(o) ==
    IF o.kind = "response"
    THEN IF o.status_code # HTTP_OK
         THEN [raised |-> FALSE, value |-> MSG_ACTIVE, logs |-> <<>>]
         ELSE [raised |-> FALSE, value |-> MSG_INACTIVE, logs |-> <<>>]
    ELSE [raised |-> FALSE, value |-> MSG_ERROR,
          logs |-> <<"API Error: " \o o.detail>>]

\* fetch_match_status reporting a server error (5xx) as a fetch error.
fetch_match_status_5xxIsError(o) ==
    IF o.kind = "response"
    THEN IF o.status_code = HTTP_OK
         THEN [raised |-> FALSE, value |-> MSG_ACTIVE, logs |-> <<>>]
         ELSE IF o.status_code >= 500
         THEN [raised |-> FALSE, value |-> MSG_ERROR, logs |-> <<>>]
         ELSE [raised |-> FALSE, value |-> MSG_INACTIVE, logs |-> <<>>]
    ELSE [raised |-> FALSE, value |-> MSG_ERROR,
          logs |-> <<"API Error: " \o o.detail>>]

\* fetch_match_status with "elif status_code == 404" and no else: any other
\* status falls off the end of the function, which returns no status string.
fetch_match_status_NoElse(o) ==
    IF o.kind = "response"
    THEN IF o.status_code = HTTP_OK
         THEN [raised |-> FALSE, value |-> MSG_ACTIVE, logs |-> <<>>]
         ELSE IF o.status_code = 404
         THEN [raised |-> FALSE, value |-> MSG_INACTIVE, logs |-> <<>>]
         ELSE [raised |-> FALSE, value |-> Unset, logs |-> <<>>]
    ELSE [raised |-> FALSE, value |-> MSG_ERROR,
          logs |-> <<"API Error: " \o o.detail>>]

\* The body of fetch_match_status once requests.get has returned or raised.
fetch_match_status(o) ==
    IF o.kind = "response"
    THEN IF o.status_code = HTTP_OK
         THEN [raised |-> FALSE, value |-> MSG_ACTIVE, logs |-> <<>>]
         ELSE [raised |-> FALSE, value |-> MSG_INACTIVE, logs |-> <<>>]
    ELSE [raised |-> FALSE, value |-> MSG_ERROR,
          logs |-> <<"API Error: " \o o.detail>>]

(* ----------------------------------------------------------------- state *)

VARIABLES
    mainPc,         \* where the main thread is
    config,         \* history: the configuration file load_api_key found
    RIOT_API_KEY,   \* module global
    log,            \* what debug_log was called with, in order
    trackerPc,      \* where the MatchTracker thread is
    inflight,       \* the request requests.get is waiting on
    match_status,   \* run()'s local
    connections,    \* slots connected to match_data_signal
    eventQueue,     \* main thread's queue of posted slot calls
    label,          \* match_status_label's text
    interruptionRequested,  \* QThread's interruption flag
    now,            \* wall clock
    wakeAt,         \* when the running time.sleep returns
    sleptAt,        \* history: when the running time.sleep was entered
    ticks,          \* history: one record per fetch_match_status call
    ticksStarted,   \* history: loop iterations begun
    published,      \* history: arguments of match_data_signal.emit
    delivered,      \* history: arguments of update_match_status
    lastPubTime,    \* history: instant of the last emit
    lastGap,        \* history: time between the last two emits
    pubsAfterCancel \* history: emits since the interruption request

vars == <<mainPc, config, RIOT_API_KEY, log, trackerPc, inflight, match_status,
          connections, eventQueue, label, interruptionRequested, now, wakeAt,
          sleptAt, ticks, ticksStarted, published, delivered, lastPubTime, lastGap,
          pubsAfterCancel>>

mainVars == <<mainPc, config, RIOT_API_KEY, label>>
trackerVars ==
    <<trackerPc, inflight, match_status, wakeAt, sleptAt, ticks, ticksStarted>>
pubVars == <<published, lastPubTime, lastGap, pubsAfterCancel>>

NoRequest == [url |-> "", headers |-> {}]

\* The configuration file is read through the \E of LoadApiKey and not
\* recorded.
Unrecorded == [kind |-> "unrecorded", field |-> "absent", value |-> <<>>]

\* Everything but the configuration file.
InitCommon ==
    /\ mainPc = "import"
    /\ RIOT_API_KEY = None
    /\ log = <<>>
    /\ trackerPc = "absent"
    /\ inflight = NoRequest
    /\ match_status = Unset
    /\ connections = <<>>
    /\ eventQueue = <<>>
    /\ label = Unset
    /\ interruptionRequested = FALSE
    /\ now = 0
    /\ wakeAt = 0
    /\ sleptAt = 0
    /\ ticks = <<>>
    /\ ticksStarted = 0
    /\ published = <<>>
    /\ delivered = <<>>
    /\ lastPubTime = 0
    /\ lastGap = 0
    /\ pubsAfterCancel = 0

Init ==
    /\ InitCommon
    /\ config = Unrecorded

\* load_api_key alone: the module is imported with the configuration file
\* in any of the states of LoadConfigs.
LoadInit ==
    /\ InitCommon
    /\ config \in LoadConfigs

(* ------------------------------------------------------- the main thread *)

\* RIOT_API_KEY = load_api_key(), at import.
LoadApiKey ==
    /\ mainPc = "import"
    /\ \E cfg \in Configs :
        LET r == load_api_key(cfg) IN
        /\ log' = log \o r.logs
        /\ RIOT_API_KEY' = r.value
        /\ mainPc' = IF r.raised THEN "importfailed" ELSE "initUI"
    /\ UNCHANGED <<config, label, trackerVars, pubVars, connections, eventQueue,
                   interruptionRequested, now, delivered>>

\* RIOT_API_KEY = load_api_key(), at import, of the recorded file.
LoadFromConfig ==
    /\ mainPc = "import"
    /\ LET r == load_api_key(config) IN
        /\ log' = log \o r.logs
        /\ RIOT_API_KEY' = r.value
        /\ mainPc' = IF r.raised THEN "importfailed" ELSE "initUI"
    /\ UNCHANGED <<config, label, trackerVars, pubVars, connections, eventQueue,
                   interruptionRequested, now, delivered>>

\* ValorantTrackerGUI.__init__ up to initUI: the label shows the placeholder.
InitUI ==
    /\ mainPc = "initUI"
    /\ label' = MSG_WAITING
    /\ mainPc' = "create"
    /\ UNCHANGED <<config, RIOT_API_KEY, log, trackerVars, pubVars, connections,
                   eventQueue, interruptionRequested, now, delivered>>

\* start_tracking: self.tracker_thread = MatchTracker()
CreateTracker ==
    /\ mainPc = "create"
    /\ trackerPc' = "created"
    /\ mainPc' = "connect"
    /\ UNCHANGED <<config, RIOT_API_KEY, label, log, inflight, match_status, wakeAt,
                   sleptAt, ticks, ticksStarted, pubVars, connections, eventQueue,
                   interruptionRequested, now, delivered>>

\* start_tracking without its connect line.
Connect_Missing ==
    /\ mainPc = "connect"
    /\ mainPc' = "start"
    /\ UNCHANGED <<config, RIOT_API_KEY, label, log, trackerVars, pubVars,
                   connections, eventQueue, interruptionRequested, now,
                   delivered>>

\* start_tracking: match_data_signal.connect(self.update_match_status)
Connect ==
    /\ mainPc = "connect"
    /\ connections' = Append(connections, "update_match_status")
    /\ mainPc' = "start"
    /\ UNCHANGED <<config, RIOT_API_KEY, label, log, trackerVars, pubVars, eventQueue,
                   interruptionRequested, now, delivered>>

\* start_tracking: self.tracker_thread.start()
Start ==
    /\ mainPc = "start"
    /\ trackerPc' = "loop"
    /\ mainPc' = "show"
    /\ UNCHANGED <<config, RIOT_API_KEY, label, log, inflight, match_status, wakeAt,
                   sleptAt, ticks, ticksStarted, pubVars, connections, eventQueue,
                   interruptionRequested, now, delivered>>

\* launch_gui: window.show(); app.exec()
Exec ==
    /\ mainPc = "show"
    /\ mainPc' = "exec"
    /\ UNCHANGED <<config, RIOT_API_KEY, label, log, trackerVars, pubVars, connections,
                   eventQueue, interruptionRequested, now, delivered>>

\* update_match_status that leaves the label as it is.
update_match_status_NoSetText(status) ==
    label' = label

\* update_match_status(status)
update_match_status(status) ==
    label' = status

\* The event loop held up while the tracker waits, as when the polling is
\* run on the main thread.
Deliver_HeldWhileTrackerWaits ==
    /\ mainPc = "exec"
    /\ trackerPc \notin {"request", "sleeping"}
    /\ eventQueue # <<>>
    /\ update_match_status(Head(eventQueue).arg)
    /\ delivered' = Append(delivered, Head(eventQueue).arg)
    /\ eventQueue' = Tail(eventQueue)
    /\ UNCHANGED <<mainPc, config, RIOT_API_KEY, log, trackerVars, pubVars,
                   connections, interruptionRequested, now>>

\* The event loop serves the oldest posted slot call.
Deliver ==
    /\ mainPc = "exec"
    /\ eventQueue # <<>>
    /\ update_match_status(Head(eventQueue).arg)
    /\ delivered' = Append(delivered, Head(eventQueue).arg)
    /\ eventQueue' = Tail(eventQueue)
    /\ UNCHANGED <<mainPc, config, RIOT_API_KEY, log, trackerVars, pubVars, connections,
                   interruptionRequested, now>>

\* QThread.requestInterruption(), which MatchTracker inherits: sets the flag
\* that isInterruptionRequested() reads.
RequestInterruption ==
    /\ trackerPc \notin {"absent", "created"}
    /\ ~interruptionRequested
    /\ interruptionRequested' = TRUE
    /\ UNCHANGED <<mainVars, log, trackerVars, pubVars, connections, eventQueue,
                   now, delivered>>

(* ---------------------------------------------------- the tracker thread *)

\* run: while True; fetch_match_status up to the call of requests.get.
IssueRequest ==
    /\ trackerPc = "loop"
    /\ ticksStarted < MaxTicks
    /\ LET headers == [h \in {"X-Riot-Token"} |-> RIOT_API_KEY] IN
       inflight' = [url |-> URL, headers |-> sent_headers(headers)]
    /\ ticksStarted' = ticksStarted + 1
    /\ trackerPc' = "request"
    /\ UNCHANGED <<mainVars, log, match_status, wakeAt, sleptAt, ticks, pubVars,
                   connections, eventQueue, interruptionRequested, now,
                   delivered>>

\* requests.get ends with outcome o; the rest of fetch_match_status runs.
FetchOutcome(o) ==
    /\ trackerPc = "request"
    /\ LET r == fetch_match_status(o) IN
        /\ log' = log \o r.logs
        /\ match_status' = IF r.raised THEN match_status ELSE r.value
        /\ trackerPc' = IF r.raised THEN "crashed" ELSE "emit"
        /\ ticks' = Append(ticks, [outcome |-> o,
                                   request |-> inflight,
                                   token |-> RIOT_API_KEY,
                                   raised |-> r.raised,
                                   ret |-> IF r.raised THEN Unset ELSE r.value,
                                   logs |-> r.logs])
    /\ inflight' = NoRequest
    /\ UNCHANGED <<mainVars, wakeAt, sleptAt, ticksStarted, pubVars, connections,
                   eventQueue, interruptionRequested, now, delivered>>

\* fetch_match_status trying again, within the tick, when requests.get raised.
FetchReturn_RetryOnError ==
    \E o \in Outcomes :
        IF o.kind = "exception"
        THEN /\ trackerPc = "request"
             /\ log' = log \o fetch_match_status(o).logs
             /\ ticks' = Append(ticks, [outcome |-> o,
                                        request |-> inflight,
                                        token |-> RIOT_API_KEY,
                                        raised |-> FALSE,
                                        ret |-> Unset,
                                        logs |-> fetch_match_status(o).logs])
             /\ UNCHANGED <<mainVars, trackerPc, inflight, match_status, wakeAt,
                            sleptAt, ticksStarted, pubVars, connections,
                            eventQueue, interruptionRequested, now, delivered>>
        ELSE FetchOutcome(o)

\* requests.get returns or raises; the rest of fetch_match_status runs.
FetchReturn ==
    \E o \in Outcomes : FetchOutcome(o)

\* The same during an outage: requests.get raises, every time.
FetchFails ==
    \E o \in {x \in Outcomes : x.kind = "exception"} : FetchOutcome(o)

\* emit posting at the front of the queue.
emit_AtFront(status) ==
    eventQueue' =
        [i \in 1..Len(connections) |-> [slot |-> connections[i], arg |-> status]]
        \o eventQueue

\* match_data_signal.emit(status): one posted call per connection.
emit(status) ==
    eventQueue' = eventQueue \o
        [i \in 1..Len(connections) |-> [slot |-> connections[i], arg |-> status]]

\* run emitting only when the fetch did not fail.
Emit_SkipOnError ==
    /\ trackerPc = "emit"
    /\ IF match_status = MSG_ERROR
       THEN UNCHANGED <<eventQueue, pubVars>>
       ELSE /\ emit(match_status)
            /\ published' = Append(published, match_status)
            /\ lastPubTime' = now
            /\ lastGap' = IF published = <<>> THEN 0 ELSE now - lastPubTime
            /\ pubsAfterCancel' = IF interruptionRequested
                                  THEN pubsAfterCancel + 1 ELSE pubsAfterCancel
    /\ trackerPc' = "sleep"
    /\ UNCHANGED <<mainVars, log, inflight, match_status, wakeAt, sleptAt, ticks,
                   ticksStarted, connections, interruptionRequested, now,
                   delivered>>

\* run: self.match_data_signal.emit(match_status)
Emit ==
    /\ trackerPc = "emit"
    /\ emit(match_status)
    /\ published' = Append(published, match_status)
    /\ lastPubTime' = now
    /\ lastGap' = IF published = <<>> THEN 0 ELSE now - lastPubTime
    /\ pubsAfterCancel' = IF interruptionRequested
                          THEN pubsAfterCancel + 1 ELSE pubsAfterCancel
    /\ trackerPc' = "sleep"
    /\ UNCHANGED <<mainVars, log, inflight, match_status, wakeAt, sleptAt, ticks,
                   ticksStarted, connections, interruptionRequested, now,
                   delivered>>

\* time.sleep(secs): returns no earlier than secs from now.
sleep_until(secs) == now + secs

\* run without the pause: time.sleep(0).
Sleep_NoPause ==
    /\ trackerPc = "sleep"
    /\ wakeAt' = sleep_until(0)
    /\ sleptAt' = now
    /\ trackerPc' = "sleeping"
    /\ UNCHANGED <<mainVars, log, inflight, match_status, ticks, ticksStarted,
                   pubVars, connections, eventQueue, interruptionRequested,
                   now, delivered>>

\* run: time.sleep(5) is entered.
Sleep ==
    /\ trackerPc = "sleep"
    /\ wakeAt' = sleep_until(SleepSecs)
    /\ sleptAt' = now
    /\ trackerPc' = "sleeping"
    /\ UNCHANGED <<mainVars, log, inflight, match_status, ticks, ticksStarted,
                   pubVars, connections, eventQueue, interruptionRequested,
                   now, delivered>>

\* run: time.sleep(5) returns; back to the top of the loop.
Wake ==
    /\ trackerPc = "sleeping"
    /\ now >= wakeAt
    /\ trackerPc' = "loop"
    /\ UNCHANGED <<mainVars, log, inflight, match_status, wakeAt, sleptAt, ticks,
                   ticksStarted, pubVars, connections, eventQueue,
                   interruptionRequested, now, delivered>>

\* The wall clock advances.
Tick ==
    /\ now < MaxTime
    /\ now' = now + 1
    /\ UNCHANGED <<mainVars, log, trackerVars, pubVars, connections,
                   eventQueue, interruptionRequested, delivered>>

Next ==
    \/ LoadApiKey
    \/ InitUI
    \/ CreateTracker
    \/ Connect
    \/ Start
    \/ Exec
    \/ Deliver
    \/ RequestInterruption
    \/ IssueRequest
    \/ FetchReturn
    \/ Emit
    \/ Sleep
    \/ Wake
    \/ Tick

Spec == Init /\ [][Next]_vars

\* A sustained outage in normal operation: every request ends, and ends with
\* an exception; nobody asks the thread to stop.  Both threads keep being
\* scheduled and time keeps passing.
OutageNext ==
    \/ LoadApiKey
    \/ InitUI
    \/ CreateTracker
    \/ Connect
    \/ Start
    \/ Exec
    \/ Deliver
    \/ IssueRequest
    \/ FetchFails
    \/ Emit
    \/ Sleep
    \/ Wake
    \/ Tick

OutageFairness ==
    /\ WF_vars(LoadApiKey) /\ WF_vars(InitUI) /\ WF_vars(CreateTracker)
    /\ WF_vars(Connect) /\ WF_vars(Start) /\ WF_vars(Exec) /\ WF_vars(Deliver)
    /\ WF_vars(IssueRequest) /\ WF_vars(FetchFails) /\ WF_vars(Emit)
    /\ WF_vars(Sleep) /\ WF_vars(Wake) /\ WF_vars(Tick)

OutageSpec == Init /\ [][OutageNext]_vars /\ OutageFairness

\* Both threads keep being scheduled and time keeps passing, but nothing
\* makes requests.get end: it is called without a timeout, so it waits for
\* the remote end for as long as that takes.
HangFairness ==
    /\ WF_vars(LoadApiKey) /\ WF_vars(InitUI) /\ WF_vars(CreateTracker)
    /\ WF_vars(Connect) /\ WF_vars(Start) /\ WF_vars(Exec) /\ WF_vars(Deliver)
    /\ WF_vars(IssueRequest) /\ WF_vars(Emit)
    /\ WF_vars(Sleep) /\ WF_vars(Wake) /\ WF_vars(Tick)

HangSpec == Init /\ [][Next]_vars /\ HangFairness

\* The import of the module up to the end of load_api_key.
LoadNext == LoadFromConfig

LoadSpec == LoadInit /\ [][LoadNext]_vars

(* ------------------------------------------------------------ properties *)

IsPrefix(s, t) == Len(s) <= Len(t) /\ SubSeq(t, 1, Len(s)) = s

Args(q) == [i \in 1..Len(q) |-> q[i].arg]

IsException(t) == t.outcome.kind = "exception"

\* The loop iteration in progress has not reached its emit yet.
BeforeEmit == trackerPc \in {"request", "emit", "crashed"}

\* C1: every loop iteration of run emits exactly once, whatever the remote
\* check did: the emits so far are the values returned by the fetches so
\* far, one each, and only the iteration in progress may still owe its emit.
C1_OnePublishPerTick ==
    /\ Len(published) = ticksStarted - (IF BeforeEmit THEN 1 ELSE 0)
    /\ \A i \in 1..Len(published) : published[i] = ticks[i].ret

C1_Witness ==
    /\ Len(published) = 3
    /\ {ticks[i].outcome.kind : i \in 1..3} = {"response", "exception"}
    /\ \E i \in 1..3 : ticks[i].outcome.status_code = HTTP_OK
    /\ \E i \in 1..3 : ticks[i].outcome.status_code = 404

\* C2: with no token (RIOT_API_KEY is None) no tick makes a network call and
\* every tick publishes "Error fetching data.".
C2_AbsentTokenNoNetwork ==
    (mainPc # "import" /\ RIOT_API_KEY = None) =>
        /\ inflight = NoRequest
        /\ \A i \in 1..Len(published) : published[i] = MSG_ERROR

\* C3: at most one publish follows a cancellation signal.
C3_AtMostOnePublishAfterCancel ==
    pubsAfterCancel <= 1

\* C4: no outcome of the request ends the tracker thread: an exception of
\* requests.get never leaves fetch_match_status, every fetch returns one of
\* the status strings, and the thread is always at a point of its loop.
C4_NoErrorTerminatesPoller ==
    /\ trackerPc # "crashed"
    /\ \A i \in 1..Len(ticks) : ~ticks[i].raised /\ ticks[i].ret \in Messages
    /\ ticksStarted > 0 =>
        trackerPc \in {"loop", "request", "emit", "sleep", "sleeping"}

C4_Witness ==
    /\ Len(ticks) >= 2
    /\ IsException(ticks[1])
    /\ Len(published) >= 2

\* C5: update_match_status receives the emitted messages in the order of
\* their emits, each once: what was delivered, followed by what is still
\* queued, is what was published.
C5_DeliveredInPublishOrder ==
    /\ IsPrefix(delivered, published)
    /\ delivered \o Args(eventQueue) = published

C5_Witness ==
    /\ Len(delivered) >= 2
    /\ delivered[1] # delivered[2]
    /\ eventQueue # <<>>

ApiErrorLog == SelectSeq(log, LAMBDA m : m # LOG_NO_CONFIG)

ExpectedApiErrorLog ==
    LET failed == SelectSeq(ticks, IsException)
    IN  [i \in 1..Len(failed) |-> "API Error: " \o failed[i].outcome.detail]

\* C6: a tick whose request raises publishes "Error fetching data.", and
\* debug_log is called once for it, with the exception's text, before the
\* emit: the log holds one "API Error: <detail>" line per failed fetch, in
\* order and nothing else from the tracker, already when the emit is due.
C6_TransportErrorLoggedAndPublished ==
    /\ ApiErrorLog = ExpectedApiErrorLog
    /\ \A i \in 1..Len(ticks) : IsException(ticks[i]) =>
        /\ ticks[i].ret = MSG_ERROR
        /\ i <= Len(published) => published[i] = MSG_ERROR
    /\ (trackerPc = "emit" /\ IsException(ticks[Len(ticks)])) =>
        /\ match_status = MSG_ERROR
        /\ Len(published) = Len(ticks) - 1
        /\ log # <<>>
        /\ log[Len(log)] = "API Error: " \o ticks[Len(ticks)].outcome.detail

C6_Witness ==
    /\ trackerPc = "emit"
    /\ Len(ticks) = 2
    /\ IsException(ticks[1]) /\ IsException(ticks[2])
    /\ ticks[1].outcome.detail # ticks[2].outcome.detail

\* C7: a tick whose request returns status 200 publishes
\* "Match Active - Data Retrieved!".
C7_Status200PublishesActive ==
    \A i \in 1..Len(published) :
        (ticks[i].outcome.kind = "response"
            /\ ticks[i].outcome.status_code = 200) =>
        published[i] = MSG_ACTIVE

C7_Witness ==
    \E i \in 1..Len(published) :
        /\ ticks[i].outcome.kind = "response"
        /\ ticks[i].outcome.status_code = 200

\* C8: a tick whose request returns any status other than 200 publishes
\* "No Active Match Found.".
C8_OtherStatusPublishesInactive ==
    \A i \in 1..Len(published) :
        (ticks[i].outcome.kind = "response"
            /\ ticks[i].outcome.status_code # 200) =>
        published[i] = MSG_INACTIVE

C8_Witness ==
    \E i, j \in 1..Len(published) :
        /\ ticks[i].outcome.kind = "response"
        /\ ticks[i].outcome.status_code = 404
        /\ ticks[j].outcome.kind = "response"
        /\ ticks[j].outcome.status_code = 500

\* C9: fetch_match_status maps every outcome of the request to one of the
\* three status messages, and equal outcomes to the same message.
C9_ClassificationTotalDeterministic ==
    /\ \A i \in 1..Len(ticks) : ticks[i].ret \in Messages
    /\ \A i, j \in 1..Len(ticks) :
        ticks[i].outcome = ticks[j].outcome => ticks[i].ret = ticks[j].ret
    /\ trackerPc = "emit" => match_status \in Messages

C9_Witness ==
    /\ Len(ticks) = 3
    /\ ticks[1].outcome = ticks[3].outcome
    /\ ticks[1].outcome.kind = "response" /\ ticks[1].outcome.status_code = 500
    /\ IsException(ticks[2])

\* C10: N iterations publish N messages, two consecutive publishes are at
\* least 5 apart, and every pause is 5 long whatever happened before it.
C10_FixedInterval ==
    /\ trackerPc \in {"loop", "sleep", "sleeping"} => Len(published) = ticksStarted
    /\ Len(published) >= 2 => lastGap >= SleepSecs
    /\ trackerPc = "sleeping" => wakeAt = sleptAt + SleepSecs

C10_Witness ==
    /\ Len(published) = 3
    /\ IsException(ticks[1]) /\ IsException(ticks[2])
    /\ lastGap = SleepSecs
    /\ trackerPc = "sleeping"

\* The explored horizon ends the polling: the clock stopped before the pause
\* in progress is over.
HorizonReached ==
    trackerPc = "sleeping" /\ now = MaxTime /\ wakeAt > MaxTime

\* C11: during a sustained outage the consumer keeps receiving messages:
\* every iteration the tracker starts is published and then delivered to
\* update_match_status, and the tracker, once started, goes on publishing
\* until the explored horizon (MaxTicks iterations, or the clock at MaxTime
\* during a pause) and stops nowhere else.
C11_OutageKeepsDelivering ==
    /\ \A k \in 1..MaxTicks :
        (ticksStarted >= k) ~> (Len(published) >= k /\ Len(delivered) >= k)
    /\ (trackerPc = "loop") ~> (Len(published) = MaxTicks \/ HorizonReached)

C11_Witness ==
    /\ Len(delivered) = 3
    /\ \A i \in 1..3 : IsException(ticks[i])
    /\ label = MSG_ERROR

\* load_api_key has run.
Loaded == mainPc # "import"

\* load_api_key returned (None or a key) and the import went on.
Returned == mainPc = "initUI"

HasStringField(cfg) == cfg.kind = "object" /\ cfg.field = "string"

\* C12: a configuration file that is absent or malformed (not JSON, not an
\* object, api_key not a string) makes load_api_key return None, and the
\* program goes on to start; it raises nothing.
C12_LoadNeverFails ==
    (Loaded /\ ~HasStringField(config)) =>
        (Returned /\ RIOT_API_KEY = None)

\* The causes of absence that the specification names.
AbsentCause(cfg) ==
    \/ cfg.kind = "missing"
    \/ cfg.field = "absent"
    \/ /\ cfg.field = "string"
       /\ \/ strip(cfg.value) = <<>>
          \/ ~contains(MARKER, strip(cfg.value))

\* C13: load_api_key returns None when the file does not exist, the field
\* is missing, or the field is empty or lacks "RGAPI-" once trimmed; in
\* every other case it returns the trimmed field.
C13_LoadMapping ==
    Loaded =>
        /\ Returned
        /\ RIOT_API_KEY = IF AbsentCause(config) THEN None ELSE strip(config.value)

StartsWith(prefix, s) ==
    Len(s) >= Len(prefix) /\ SubSeq(s, 1, Len(prefix)) = prefix

\* C14: a token that load_api_key returns is not empty and begins with
\* "RGAPI-".
C14_TokenBeginsWithMarker ==
    (Returned /\ RIOT_API_KEY # None) =>
        (RIOT_API_KEY # <<>> /\ StartsWith(MARKER, RIOT_API_KEY))

\* C15: load_api_key calls debug_log once when it returns None, whatever
\* the cause, and not at all when it returns a token.
C15_OneDiagnosticOnAbsent ==
    Returned => Len(log) = (IF RIOT_API_KEY = None THEN 1 ELSE 0)

\* C16: a request in flight always ends, answered or not, so the tick that
\* issued it reaches its publish.
C16_RequestEventuallyPublished ==
    (trackerPc = "request") ~> (trackerPc = "emit")

\* The tracker thread waits: in requests.get, or in time.sleep.
TrackerSuspended == trackerPc \in {"request", "sleeping"}

\* What only the main thread writes, and what only the tracker thread writes.
consumerSide == <<mainPc, config, RIOT_API_KEY, label, delivered, connections>>
pollerSide == <<trackerVars, pubVars, log>>

\* C17: while the tracker waits in the network call or in its pause, the
\* main thread can take its next step, the handling of a message already
\* published included; and once the tracker runs, a step of one thread
\* changes nothing of the other's but the queue of posted calls.
C17_SuspensionNeverBlocksConsumer ==
    /\ [](TrackerSuspended =>
            /\ mainPc = "show" => ENABLED Exec
            /\ (mainPc = "exec" /\ eventQueue # <<>>) => ENABLED Deliver)
    /\ [][trackerPc \notin {"absent", "created"} =>
            /\ pollerSide' # pollerSide => consumerSide' = consumerSide
            /\ consumerSide' # consumerSide => pollerSide' = pollerSide]_vars

C17_Witness ==
    /\ trackerPc = "request"
    /\ mainPc = "exec"
    /\ eventQueue # <<>>
    /\ Len(delivered) = 1

\* Calls of requests.get so far: those that ended, and the one in progress.
RequestsIssued == Len(ticks) + (IF inflight # NoRequest THEN 1 ELSE 0)

\* C18: a tick makes at most one request and does not try again: the
\* requests made never outnumber the ticks started, and a request that has
\* ended, however it ended, is followed by its publish before anything else.
C18_OneRequestPerTick ==
    /\ RequestsIssued <= ticksStarted
    /\ Len(ticks) > Len(published) =>
        (trackerPc = "emit" /\ Len(ticks) = Len(published) + 1)
    /\ trackerPc = "request" => Len(published) = Len(ticks)

C18_Witness ==
    /\ ticksStarted = 3
    /\ inflight # NoRequest
    /\ IsException(ticks[1])
    /\ ticks[2].outcome.kind = "response" /\ ticks[2].outcome.status_code = 404

\* The tracker thread has been started.
TrackerStarted == trackerPc \notin {"absent", "created"}

\* C19: update_match_status is connected before the tracker can emit:
\* from start() on exactly one connection exists, never more than one at
\* any time, so every emit, the first included, posts exactly one call.
C19_SubscribedBeforeFirstPublish ==
    /\ Len(connections) <= 1
    /\ TrackerStarted => connections = <<"update_match_status">>
    /\ Len(published) = Len(delivered) + Len(eventQueue)
    /\ \A i \in 1..Len(eventQueue) : eventQueue[i].slot = "update_match_status"

C19_Witness ==
    /\ mainPc = "show"
    /\ Len(published) = 1
    /\ Len(eventQueue) = 1

\* C20: the label shows "Waiting for match data..." until the first call of
\* update_match_status and the argument of the latest call ever after,
\* which is one of the three status messages and never the placeholder.
C20_LabelIsPlaceholderOrLatest ==
    /\ label \in Messages \cup {MSG_WAITING, Unset}
    /\ label = Unset <=> mainPc \in {"import", "importfailed", "initUI"}
    /\ label # Unset =>
        label = IF delivered = <<>> THEN MSG_WAITING
                ELSE delivered[Len(delivered)]
    /\ \A i \in 1..Len(delivered) : delivered[i] \in Messages

C20_Witness ==
    /\ Len(delivered) = 2
    /\ delivered[1] = MSG_ERROR
    /\ label = MSG_ACTIVE

====
